---- MODULE Spec2Model ----
(***************************************************************************)
(* A model of log_parser.py: the access-log report generator.              *)
(*                                                                         *)
(* Text is modelled as sequences of Unicode codepoints where the code      *)
(* inspects characters (file names, digit groups) and as TLA+ strings      *)
(* where it only compares and copies (language names, month names).        *)
(* Python's None is the string "None".  A float that the code computes by  *)
(* true division is kept as the exact fraction [num, den].                 *)
(***************************************************************************)
EXTENDS Integers, Sequences, FiniteSets, TLC

VARIABLES
    pc,                 \* where main() is: "get_stats", "reshape", "open", "done"
                        \* ("unescape", "listdir" in the partial specifications)
    listed,             \* entries os.listdir has handed out so far
    f_open,             \* TRUE while _gen_file_log_records is inside its with block
    line_number,        \* enumerate(f) index of the next line of the open file
    lines_read,         \* lines read so far, over all files
    months,             \* _get_stats: the months dict
    request,            \* _get_stats: the loop variable (last record pulled)
    stats,              \* main: the list _get_stats returned ("None" before)
    top_count,          \* _reshape_stats: its top_count parameter
    report_file_path,   \* main: its second argument
    written,            \* documents json.dump has written to the destination
    created,            \* TRUE once io.open(report_file_path, 'w') made the file
    exc,                \* the exception main() caught ("None" if none)
    ret,                \* main's return value ("None" while running)
    fed,                \* history: month_date -> records pulled by the for loop
    file_yield,         \* history: records the open file has yielded so far
    failed_yield,       \* history: records yielded by files that then failed
    escaped_file_name,  \* input of the unescape step (lines 58-60)
    file_name,          \* its result
    directory,          \* a fixed directory: file name -> its records
    listing             \* the order os.listdir returned its names in

vars == <<pc, listed, f_open, line_number, lines_read, months, request, stats, top_count,
          report_file_path, written, created, exc, ret, fed, file_yield,
          failed_yield, escaped_file_name, file_name, directory, listing>>

None == "None"

(***************************************************************************)
(* Bounds of the model.                                                    *)
(***************************************************************************)
MaxEntries == 2      \* directory entries per run
MaxRecords == 2      \* lines read per run, over all files
MaxNameLen == 4      \* length of an escaped file name (unescape check)
MaxTop == 6          \* largest top_count tried (reshape check)

(***************************************************************************)
(* Characters.                                                             *)
(***************************************************************************)
Backslash == <<92>>
Quote == <<34>>

(***************************************************************************)
(* str.replace(old, new): left to right, non-overlapping.                  *)
(***************************************************************************)
RECURSIVE StrReplace(_, _, _)
StrReplace(s, old, new) ==
    IF Len(s) < Len(old) THEN s
    ELSE IF SubSeq(s, 1, Len(old)) = old
         THEN new \o StrReplace(SubSeq(s, Len(old) + 1, Len(s)), old, new)
         ELSE <<Head(s)>> \o StrReplace(Tail(s), old, new)

\* Mutant: the two replacements in the other order.
UnescapeSwapped(escaped) ==
    StrReplace(StrReplace(escaped, Backslash \o Backslash, Backslash),
               Backslash \o Quote, Quote)

\* lines 59-60: escaped_file_name.replace('\\"', '"').replace('\\\\', '\\')
Unescape(escaped) ==
    StrReplace(StrReplace(escaped, Backslash \o Quote, Quote),
               Backslash \o Backslash, Backslash)

(***************************************************************************)
(* int() of a captured \d+ group, given as its decimal digits.             *)
(***************************************************************************)
RECURSIVE int(_)
int(digits) ==
    IF digits = << >> THEN 0
    ELSE 10 * int(SubSeq(digits, 1, Len(digits) - 1)) + digits[Len(digits)]

\* str() of a non-negative int: its decimal digits.
RECURSIVE str(_)
str(n) == IF n < 10 THEN <<n>> ELSE str(n \div 10) \o <<n % 10>>

(***************************************************************************)
(* A line is what log_record_re makes of it: no match, or the six groups.  *)
(***************************************************************************)
NoMatch == [matched |-> FALSE]

Groups(mo, y, lang, fname, sc, b) ==
    [matched |-> TRUE, month |-> mo, year |-> y, language |-> lang,
     file_name |-> fname, status_code |-> sc, bytes_served |-> b]

\* lines 66-75
LogRecord(y, mo, lang, fname, sc, b) ==
    [year |-> y, month |-> mo, language |-> lang, file_name |-> fname,
     status_code |-> sc, bytes_served |-> b]

\* lines 46-75: one line of the file, to a record or a parse error.  The
\* groups are \d+ matches, so the conversions of lines 53-56 do not raise.
ParseLine(line, ln) ==
    IF ~line.matched
    THEN [error |-> TRUE, line_number |-> ln]
    ELSE LogRecord(int(line.year), int(line.month), line.language,
                   Unescape(line.file_name), int(line.status_code),
                   int(line.bytes_served))

IsLogRecord(r) == "error" \notin DOMAIN r

(***************************************************************************)
(* calendar.month_name: a 13-entry table, '' at index 0.  No locale is     *)
(* set by the program, so the names are the C locale's.                    *)
(***************************************************************************)
month_name ==
    <<"January", "February", "March", "April", "May", "June", "July",
      "August", "September", "October", "November", "December">>

\* calendar.month_name[i] raises IndexError outside the table
MonthNameRaises(month_number) == month_number > Len(month_name)

\* lines 90-93, where the lookup does not raise
_format_month(month_number) ==
    IF month_number = 0 THEN "" ELSE month_name[month_number]

(***************************************************************************)
(* _get_stats: the body of its for loop, lines 110-151.                    *)
(***************************************************************************)
\* line 110
MonthDate(r) == <<r.year, r.month>>

\* line 111
IsSuccessful(r) == r.status_code \div 100 = 2

\* lines 114-124
NewMonthData(r) ==
    [year |-> str(r.year),
     month |-> _format_month(r.month),
     languages |-> << >>,
     non_ascii |-> {},
     requests |-> [total |-> 0, success |-> 0, percent_success |-> None]]

\* lines 128-138
NewLangData(r) ==
    [name |-> r.language,
     mean_MB |-> None,
     stddev_MB |-> None,
     total_GB |-> None,
     total_successful_B |-> 0,
     total_successful |-> 0,
     bytes_served_successfully |-> << >>]

\* dict.get on the languages dict: the index, 0 if absent.  The dict is a
\* sequence in insertion order, the order its values() are iterated in
\* (CPython 3.6 and later; before that the order is arbitrary).
LangIndex(month_langs, name) ==
    IF \E i \in 1..Len(month_langs) : month_langs[i].name = name
    THEN CHOOSE i \in 1..Len(month_langs) : month_langs[i].name = name
    ELSE 0

\* lines 125-138
WithLang(month_langs, r) ==
    IF LangIndex(month_langs, r.language) = 0
    THEN Append(month_langs, NewLangData(r))
    ELSE month_langs

\* line 140
IsNonAscii(name) == \E i \in 1..Len(name) : name[i] > 127

\* lines 140-141
WithNonAscii(non_ascii, r) ==
    IF IsNonAscii(r.file_name) THEN non_ascii \cup {r.file_name} ELSE non_ascii

\* Mutant: the total is counted on the failure branch only.
TrackRequestsElse(month_requests, ok) ==
    IF ok THEN [month_requests EXCEPT !.success = @ + 1]
    ELSE [month_requests EXCEPT !.total = @ + 1]

\* lines 143-146
TrackRequests(month_requests, ok) ==
    LET counted == [month_requests EXCEPT !.total = @ + 1]
    IN  IF ok THEN [counted EXCEPT !.success = @ + 1] ELSE counted

\* Counter[key] += 1
CounterIncr(counter, key) ==
    IF key \in DOMAIN counter
    THEN [counter EXCEPT ![key] = @ + 1]
    ELSE counter @@ (key :> 1)

\* Mutant: the bucket is set rather than incremented.
TrackTrafficSet(lang_data, r) ==
    IF IsSuccessful(r)
    THEN [lang_data EXCEPT
            !.total_successful = @ + 1,
            !.total_successful_B = @ + r.bytes_served,
            !.bytes_served_successfully =
                [k \in DOMAIN @ \cup {r.bytes_served} |->
                    IF k = r.bytes_served THEN 1 ELSE @[k]]]
    ELSE lang_data

\* lines 148-151
TrackTraffic(lang_data, r) ==
    IF IsSuccessful(r)
    THEN [lang_data EXCEPT
            !.total_successful = @ + 1,
            !.total_successful_B = @ + r.bytes_served,
            !.bytes_served_successfully = CounterIncr(@, r.bytes_served)]
    ELSE lang_data

\* line 116 raises when the record opens a month whose number has no name
StepRaises(ms, r) == MonthDate(r) \notin DOMAIN ms /\ MonthNameRaises(r.month)

\* lines 110-151, where line 116 does not raise
GetStatsStep(ms, r) ==
    LET month_date == MonthDate(r)
        month_data == IF month_date \in DOMAIN ms THEN ms[month_date]
                      ELSE NewMonthData(r)
        month_langs == WithLang(month_data.languages, r)
        i == LangIndex(month_langs, r.language)
        updated == [month_data EXCEPT
                      !.languages = [month_langs EXCEPT ![i] = TrackTraffic(@, r)],
                      !.non_ascii = WithNonAscii(@, r),
                      !.requests = TrackRequests(@, IsSuccessful(r))]
    IN  IF month_date \in DOMAIN ms
        THEN [ms EXCEPT ![month_date] = updated]
        ELSE ms @@ (month_date :> updated)

\* tuple comparison of two month_date keys
DateLess(a, b) == a[1] < b[1] \/ (a[1] = b[1] /\ a[2] < b[2])

\* sorted(months): the keys in ascending order
RECURSIVE SortedDates(_)
SortedDates(dates) ==
    IF dates = {} THEN << >>
    ELSE LET first == CHOOSE d \in dates : \A e \in dates \ {d} : DateLess(d, e)
         IN  <<first>> \o SortedDates(dates \ {first})

\* line 153
MonthList(ms) ==
    LET keys == SortedDates(DOMAIN ms)
    IN  [i \in 1..Len(keys) |-> ms[keys[i]]]

\* lines 108-153 over a whole sequence of records, none of which raises
RECURSIVE Accumulated(_)
Accumulated(log_records) ==
    IF log_records = << >> THEN << >>
    ELSE GetStatsStep(Accumulated(SubSeq(log_records, 1, Len(log_records) - 1)),
                      log_records[Len(log_records)])

(***************************************************************************)
(* _reshape_stats, lines 169-212.                                          *)
(***************************************************************************)
DefaultTopCount == 5

mb == 1000 * 1000
gb == 1000 * 1000 * 1000

\* lines 178-179
PercentSuccess(month_requests) ==
    [num |-> month_requests.success * 100, den |-> month_requests.total]

\* list.insert keeping descending keys; equal keys keep their arrival order
InsertDescending(sorted, ml) ==
    LET before == {i \in 1..Len(sorted) :
                     sorted[i].total_successful_B >= ml.total_successful_B}
        k == Cardinality(before)
    IN  SubSeq(sorted, 1, k) \o <<ml>> \o SubSeq(sorted, k + 1, Len(sorted))

\* lines 184-187: sorted(..., key=total, reverse=True), a stable sort
RECURSIVE SortedLangs(_)
SortedLangs(month_langs) ==
    IF month_langs = << >> THEN << >>
    ELSE InsertDescending(
             SortedLangs(SubSeq(month_langs, 1, Len(month_langs) - 1)),
             month_langs[Len(month_langs)])

\* Mutant: the cut is applied to the unsorted values.
TopLangsUnsorted(month_langs, n) ==
    SubSeq(month_langs, 1, IF n < Len(month_langs) THEN n ELSE Len(month_langs))

\* lines 184-188: sort, then del reshaped_month_langs[top_count:]
TopLangs(month_langs, n) ==
    LET ranked == SortedLangs(month_langs)
    IN  SubSeq(ranked, 1, IF n < Len(ranked) THEN n ELSE Len(ranked))

\* sum over the Counter's elements() of (x * n - total)^2
RECURSIVE SquaredDeviations(_, _, _, _)
SquaredDeviations(counter, keys, n, total) ==
    IF keys = {} THEN 0
    ELSE LET k == CHOOSE x \in keys : TRUE
         IN  counter[k] * (k * n - total) * (k * n - total)
             + SquaredDeviations(counter, keys \ {k}, n, total)

\* lines 191-211: the public fields of one language
\* mean_MB is total / n / mb; stddev_MB is sqrt(var_num / var_den) / mb
ReshapedLang(lang_data) ==
    LET n == lang_data.total_successful
        total == lang_data.total_successful_B
    IN  [name |-> lang_data.name,
         total_GB |-> [num |-> total, den |-> gb],
         mean_MB |-> IF n # 0 THEN [num |-> total, den |-> n * mb] ELSE None,
         stddev_MB |->
            IF n # 0
            THEN [var_num |-> SquaredDeviations(
                                  lang_data.bytes_served_successfully,
                                  DOMAIN lang_data.bytes_served_successfully,
                                  n, total),
                  var_den |-> n * n * n,
                  den |-> mb]
            ELSE None]

\* lines 174-212 for one month; non_ascii becomes a list in arbitrary order,
\* of which the model keeps the members
ReshapedMonth(month_data, n) ==
    LET top == TopLangs(month_data.languages, n)
    IN  [month_data EXCEPT
            !.requests.percent_success = PercentSuccess(month_data.requests),
            !.languages = [i \in 1..Len(top) |-> ReshapedLang(top[i])]]

\* lines 169-212
_reshape_stats(month_list, n) ==
    [i \in 1..Len(month_list) |-> ReshapedMonth(month_list[i], n)]

(***************************************************************************)
(* The inputs of a run.                                                    *)
(***************************************************************************)
\* the month and year groups of the timestamps: 12/2016, 0/2017, 01/2017, 13/2017
DateGroups ==
    {<< <<1, 2>>, <<2, 0, 1, 6>> >>, << <<0>>, <<2, 0, 1, 7>> >>,
     << <<0, 1>>, <<2, 0, 1, 7>> >>, << <<1, 3>>, <<2, 0, 1, 7>> >>}
Languages == {"Thai", "Lao"}
\* a.txt-like plain name; a name with e-acute and an escaped quote
EscapedNames == {<<97>>, <<233, 92, 34>>}
StatusGroups == {<<2, 0, 0>>, <<2, 9, 9>>, <<3, 0, 0>>, <<4, 0, 4>>}
BytesGroups == {<<0>>, <<1>>}

Lines ==
    {NoMatch} \cup
    {Groups(d[1], d[2], lang, fname, sc, b) :
        d \in DateGroups, lang \in Languages,
        fname \in EscapedNames, sc \in StatusGroups, b \in BytesGroups}

\* lines 46-75 over Lines: the records its matching lines parse to
LogRecords == {ParseLine(line, 0) : line \in Lines \ {NoMatch}}

ReportPaths == {"-", "report.json"}

NoRequest == [none |-> TRUE]

\* the variables only the other specifications use
PipelineIdle ==
    /\ escaped_file_name = << >>
    /\ file_name = << >>
    /\ directory = << >>
    /\ listing = << >>

\* main() is entered: line 215
Init ==
    /\ pc = "get_stats"
    /\ listed = 0
    /\ f_open = FALSE
    /\ line_number = 0
    /\ lines_read = 0
    /\ months = << >>
    /\ request = NoRequest
    /\ stats = None
    /\ top_count = DefaultTopCount
    /\ report_file_path \in ReportPaths
    /\ written = << >>
    /\ created = FALSE
    /\ exc = None
    /\ ret = None
    /\ fed = << >>
    /\ file_yield = 0
    /\ failed_yield = 0
    /\ PipelineIdle

reader == <<listed, f_open, line_number, lines_read, file_yield, failed_yield>>
accumulator == <<months, request, fed>>
output == <<stats, written, created>>
fixed == <<top_count, report_file_path, escaped_file_name, file_name,
           directory, listing>>

\* main's except clause, lines 226-228
Caught(e) == pc' = "done" /\ exc' = e /\ ret' = -1

\* line 80: os.listdir raises on the first pull
ListDirFails ==
    /\ pc = "get_stats" /\ listed = 0 /\ ~f_open
    /\ Caught("OSError")
    /\ UNCHANGED <<reader, accumulator, output, fixed>>

\* lines 82-84: the next entry is not a regular file
NotAFile ==
    /\ pc = "get_stats" /\ ~f_open /\ listed < MaxEntries
    /\ listed' = listed + 1
    /\ UNCHANGED <<pc, exc, ret, f_open, line_number, lines_read, file_yield,
                   failed_yield,
                   accumulator, output, fixed>>

\* lines 44, 87-88: io.open raises; the file is skipped
OpenFails ==
    /\ pc = "get_stats" /\ ~f_open /\ listed < MaxEntries
    /\ listed' = listed + 1
    /\ UNCHANGED <<pc, exc, ret, f_open, line_number, lines_read, file_yield,
                   failed_yield,
                   accumulator, output, fixed>>

\* line 44: io.open succeeds and the generator enters its for loop
OpenFile ==
    /\ pc = "get_stats" /\ ~f_open /\ listed < MaxEntries
    /\ listed' = listed + 1
    /\ f_open' = TRUE
    /\ line_number' = 0
    /\ file_yield' = 0
    /\ UNCHANGED <<pc, exc, ret, lines_read, failed_yield, accumulator, output,
                   fixed>>

\* lines 47-51 and 159-163: the line does not match; the error is logged
SkipLine ==
    /\ pc = "get_stats" /\ f_open /\ lines_read < MaxRecords
    /\ \E line \in Lines : ~IsLogRecord(ParseLine(line, line_number))
    /\ line_number' = line_number + 1
    /\ lines_read' = lines_read + 1
    /\ UNCHANGED <<pc, exc, ret, listed, f_open, file_yield, failed_yield,
                   accumulator, output, fixed>>

\* the for loop of _get_stats has pulled one more record of this month
Fed(r) ==
    IF MonthDate(r) \in DOMAIN fed
    THEN [fed EXCEPT ![MonthDate(r)] = @ + 1]
    ELSE fed @@ (MonthDate(r) :> 1)

\* lines 52-75, 164-167, 109-151: a line becomes a record and is accumulated
Accumulate ==
    /\ pc = "get_stats" /\ f_open /\ lines_read < MaxRecords
    /\ \E r \in LogRecords :
            /\ ~StepRaises(months, r)
            /\ request' = r
            /\ months' = GetStatsStep(months, r)
            /\ fed' = Fed(r)
    /\ line_number' = line_number + 1
    /\ lines_read' = lines_read + 1
    /\ file_yield' = file_yield + 1
    /\ UNCHANGED <<pc, exc, ret, listed, f_open, failed_yield, output, fixed>>

\* line 116 raises IndexError inside _get_stats; main catches it
AccumulateRaises ==
    /\ pc = "get_stats" /\ f_open /\ lines_read < MaxRecords
    /\ \E r \in LogRecords :
            /\ StepRaises(months, r)
            /\ request' = r
            /\ fed' = Fed(r)
    /\ line_number' = line_number + 1
    /\ lines_read' = lines_read + 1
    /\ file_yield' = file_yield + 1
    /\ Caught("IndexError")
    /\ UNCHANGED <<listed, f_open, failed_yield, months, output, fixed>>

\* lines 45, 87-88: reading or decoding raises; the with block closes the
\* file and the rest of it is skipped
ReadFails ==
    /\ pc = "get_stats" /\ f_open
    /\ f_open' = FALSE
    /\ failed_yield' = failed_yield + file_yield
    /\ file_yield' = 0
    /\ UNCHANGED <<pc, exc, ret, listed, line_number, lines_read, accumulator,
                   output, fixed>>

\* line 45: the file is exhausted
EndOfFile ==
    /\ pc = "get_stats" /\ f_open
    /\ f_open' = FALSE
    /\ file_yield' = 0
    /\ UNCHANGED <<pc, exc, ret, listed, line_number, lines_read, failed_yield,
                   accumulator, output, fixed>>

\* line 80 is exhausted; line 153 returns the months in order
EndOfDir ==
    /\ pc = "get_stats" /\ ~f_open
    /\ stats' = MonthList(months)
    /\ pc' = "reshape"
    /\ UNCHANGED <<exc, ret, reader, accumulator, written, created, fixed>>

\* line 218
Reshape ==
    /\ pc = "reshape"
    /\ stats' = _reshape_stats(stats, top_count)
    /\ pc' = "open"
    /\ UNCHANGED <<exc, ret, reader, accumulator, written, created, fixed>>

\* lines 219, 222-225: '-' selects sys.stdout and json.dump writes the report
DumpStdout ==
    /\ pc = "open" /\ report_file_path = "-"
    /\ written' = Append(written, stats)
    /\ pc' = "done" /\ ret' = 0
    /\ UNCHANGED <<exc, reader, accumulator, stats, created, fixed>>

\* line 222: writing to sys.stdout raises
DumpStdoutFails ==
    /\ pc = "open" /\ report_file_path = "-"
    /\ Caught("OSError")
    /\ UNCHANGED <<reader, accumulator, output, fixed>>

\* line 220: io.open creates the file, then f.close is read while f is
\* still unbound: the tuple is built before f is assigned
OpenReport ==
    /\ pc = "open" /\ report_file_path # "-"
    /\ created' = TRUE
    /\ Caught("UnboundLocalError")
    /\ UNCHANGED <<reader, accumulator, stats, written, fixed>>

\* line 220: io.open raises
OpenReportFails ==
    /\ pc = "open" /\ report_file_path # "-"
    /\ Caught("OSError")
    /\ UNCHANGED <<reader, accumulator, output, fixed>>

Next ==
    \/ ListDirFails \/ NotAFile \/ OpenFails \/ OpenFile
    \/ SkipLine \/ Accumulate \/ AccumulateRaises \/ ReadFails \/ EndOfFile
    \/ EndOfDir \/ Reshape
    \/ DumpStdout \/ DumpStdoutFails \/ OpenReport \/ OpenReportFails

Spec == Init /\ [][Next]_vars

(***************************************************************************)
(* The accumulator alone: the pipeline over one readable file, in which    *)
(* every record is pulled by _get_stats and the report goes to stdout.     *)
(***************************************************************************)
InitStats ==
    /\ pc = "get_stats"
    /\ listed = 1
    /\ f_open = TRUE
    /\ line_number = 0
    /\ lines_read = 0
    /\ months = << >>
    /\ request = NoRequest
    /\ stats = None
    /\ top_count = DefaultTopCount
    /\ report_file_path = "-"
    /\ written = << >>
    /\ created = FALSE
    /\ exc = None
    /\ ret = None
    /\ fed = << >>
    /\ file_yield = 0
    /\ failed_yield = 0
    /\ PipelineIdle

NextStats ==
    \/ Accumulate \/ AccumulateRaises \/ EndOfFile \/ EndOfDir \/ Reshape

SpecStats == InitStats /\ [][NextStats]_vars

(***************************************************************************)
(* The unescape step alone, over every short escaped name.                 *)
(***************************************************************************)
\* backslash, double quote, and an ordinary character
NameChars == {92, 34, 97}

EscapedInputs == UNION {[1..n -> NameChars] : n \in 1..MaxNameLen}

\* a run that has not started
RunIdle ==
    /\ listed = 0
    /\ f_open = FALSE
    /\ line_number = 0
    /\ lines_read = 0
    /\ request = NoRequest
    /\ report_file_path = "-"
    /\ written = << >>
    /\ created = FALSE
    /\ exc = None
    /\ ret = None
    /\ fed = << >>
    /\ file_yield = 0
    /\ failed_yield = 0

InitUnescape ==
    /\ pc = "unescape"
    /\ escaped_file_name \in EscapedInputs
    /\ file_name = << >>
    /\ months = << >>
    /\ stats = None
    /\ top_count = DefaultTopCount
    /\ directory = << >>
    /\ listing = << >>
    /\ RunIdle

\* lines 58-60
UnescapeName ==
    /\ pc = "unescape"
    /\ file_name' = Unescape(escaped_file_name)
    /\ pc' = "unescaped"
    /\ UNCHANGED <<exc, ret, reader, accumulator, output, top_count,
                   report_file_path, escaped_file_name, directory, listing>>

NextUnescape == UnescapeName

SpecUnescape == InitUnescape /\ [][NextUnescape]_vars

(***************************************************************************)
(* The reshaper alone, over one month of up to six languages, each with    *)
(* one successful request.                                                 *)
(***************************************************************************)
LanguagePool == <<"Thai", "Lao", "Khmer", "Malay", "Tamil", "Hindi">>

\* the byte counts of those requests
ReshapeBytes == {0, 1, 2, 3, 4, 5}

\* one successful January 2017 request per language, in arrival order
MonthRequests(sizes) ==
    [i \in 1..Len(sizes) |->
        LogRecord(2017, 1, LanguagePool[i], <<97>>, 200, sizes[i])]

InitReshape ==
    /\ pc = "reshape"
    /\ \E n \in 1..Len(LanguagePool) :
        \E sizes \in [1..n -> ReshapeBytes] :
            /\ months = Accumulated(MonthRequests(sizes))
            /\ stats = MonthList(months)
    /\ top_count \in 0..MaxTop
    /\ escaped_file_name = << >>
    /\ file_name = << >>
    /\ directory = << >>
    /\ listing = << >>
    /\ RunIdle

NextReshape == Reshape

SpecReshape == InitReshape /\ [][NextReshape]_vars

(***************************************************************************)
(* Whole runs over a fixed directory of two readable files, read in the    *)
(* order os.listdir happens to return them.                                *)
(***************************************************************************)
DirNames == {"a.log", "b.log"}

\* successful January 2017 requests
DirRecords ==
    {LogRecord(2017, 1, lang, <<97>>, 200, b) : lang \in Languages, b \in {0, 1}}

FileContents == UNION {[1..n -> DirRecords] : n \in 0..MaxRecords}

Listings ==
    {order \in [1..Cardinality(DirNames) -> DirNames] :
        \A i, j \in DOMAIN order : i # j => order[i] # order[j]}

\* lines 80-86: the records of the files, in the order of the listing
RECURSIVE DirLogRecords(_, _)
DirLogRecords(dir, order) ==
    IF order = << >> THEN << >>
    ELSE dir[Head(order)] \o DirLogRecords(dir, Tail(order))

InitDir ==
    /\ pc = "listdir"
    /\ directory \in [DirNames -> FileContents]
    /\ listing = << >>
    /\ months = << >>
    /\ stats = None
    /\ top_count = DefaultTopCount
    /\ escaped_file_name = << >>
    /\ file_name = << >>
    /\ RunIdle

\* line 80: os.listdir returns the names in arbitrary order
ListDir ==
    /\ pc = "listdir"
    /\ listing' \in Listings
    /\ pc' = "get_stats"
    /\ UNCHANGED <<exc, ret, reader, accumulator, output, top_count,
                   report_file_path, escaped_file_name, file_name, directory>>

\* lines 216-217: _get_stats consumes every record of every file
GetStatsAll ==
    /\ pc = "get_stats" /\ listing # << >>
    /\ months' = Accumulated(DirLogRecords(directory, listing))
    /\ stats' = MonthList(months')
    /\ pc' = "reshape"
    /\ UNCHANGED <<exc, ret, reader, request, fed, written, created, fixed>>

NextDir == ListDir \/ GetStatsAll \/ Reshape

SpecDir == InitDir /\ [][NextDir]_vars

(***************************************************************************)
(* Claims about the accumulator, checked under SpecStats.                  *)
(***************************************************************************)

\* C4: after any sequence of records every month accumulator has
\* total >= success >= 0 and total >= 1, and once reshaped its
\* percent_success = success * 100 / total has a non-zero divisor and lies
\* in [0, 100].
C4_MonthCountsBounded ==
    /\ \A md \in DOMAIN months :
        LET q == months[md].requests
        IN  q.total >= q.success /\ q.success >= 0 /\ q.total >= 1
    /\ pc = "open" =>
        \A i \in 1..Len(stats) :
            LET p == stats[i].requests.percent_success
            IN  p.den # 0 /\ 0 <= p.num /\ p.num <= 100 * p.den

\* a reshaped month of two requests, one of them successful: 50 percent
C4_Witness ==
    /\ pc = "open"
    /\ \E i \in 1..Len(stats) :
        /\ stats[i].requests.total = 2
        /\ stats[i].requests.success = 1
        /\ stats[i].requests.percent_success = [num |-> 100, den |-> 2]

\* the number of elements() of a Counter
RECURSIVE CounterTotal(_, _)
CounterTotal(counter, keys) ==
    IF keys = {} THEN 0
    ELSE LET k == CHOOSE x \in keys : TRUE
         IN  counter[k] + CounterTotal(counter, keys \ {k})

\* C5: for every (month, language) accumulator the successful count equals
\* the sum of the occurrence counts of its successful-bytes histogram.
C5_HistogramSumsToCount ==
    \A md \in DOMAIN months :
        \A i \in 1..Len(months[md].languages) :
            LET ld == months[md].languages[i]
            IN  ld.total_successful =
                    CounterTotal(ld.bytes_served_successfully,
                                 DOMAIN ld.bytes_served_successfully)

\* a language served the same byte count twice: one bucket holding 2
C5_Witness ==
    \E md \in DOMAIN months :
        \E i \in 1..Len(months[md].languages) :
            LET ld == months[md].languages[i]
            IN  /\ ld.total_successful = 2
                /\ \E b \in DOMAIN ld.bytes_served_successfully :
                       ld.bytes_served_successfully[b] = 2

\* the requests counters of a month that may not exist yet
RequestsOf(ms, md) ==
    IF md \in DOMAIN ms THEN ms[md].requests
    ELSE [total |-> 0, success |-> 0, percent_success |-> None]

\* what a record with a failure status does to the accumulators
FailedRequestEffect(r) ==
    LET md == MonthDate(r)
        old_langs == IF md \in DOMAIN months THEN months[md].languages ELSE << >>
        old_names == IF md \in DOMAIN months THEN months[md].non_ascii ELSE {}
    IN  /\ md \in DOMAIN months'
        /\ DOMAIN months' = DOMAIN months \cup {md}
        /\ months'[md].requests.total = RequestsOf(months, md).total + 1
        /\ months'[md].requests.success = RequestsOf(months, md).success
        /\ months'[md].non_ascii =
               IF IsNonAscii(r.file_name) THEN old_names \cup {r.file_name}
               ELSE old_names
        /\ \/ months'[md].languages = old_langs
           \/ months'[md].languages = Append(old_langs, NewLangData(r))
        /\ \A other \in DOMAIN months \ {md} : months'[other] = months[other]

\* C9: accumulating one record whose status code is not in 200..299 adds
\* one to its month's total and, if its file name has a codepoint above
\* 127, the name to the month's non_ascii set; it leaves the month's
\* success count, every language's successful count, bytes total and
\* histogram (its own language is at most created empty) and every other
\* month unchanged.
C9_FailedRequestFrame ==
    [][(file_yield' = file_yield + 1
        /\ (request'.status_code < 200 \/ request'.status_code > 299))
       => FailedRequestEffect(request')]_vars

\* C10: when the record stream has ended, _get_stats has returned one
\* entry per distinct (year, month) among the records, in strictly
\* ascending (year, month) order, each with the number of its records as
\* total.
C10_OneEntryPerMonthAscending ==
    pc # "get_stats" =>
        /\ exc = None
        /\ \E ks \in [1..Len(stats) -> DOMAIN fed] :
            /\ \A i, j \in 1..Len(stats) :
                   i < j => (ks[i][1] < ks[j][1]
                             \/ (ks[i][1] = ks[j][1] /\ ks[i][2] < ks[j][2]))
            /\ \A d \in DOMAIN fed : \E i \in 1..Len(stats) : ks[i] = d
            /\ \A i \in 1..Len(stats) :
                /\ stats[i].year = str(ks[i][1])
                /\ stats[i].requests.total = fed[ks[i]]

(***************************************************************************)
(* Claims about the whole run, checked under Spec.                         *)
(***************************************************************************)

\* the sum of a function's values
RECURSIVE SumOf(_, _)
SumOf(fn, keys) ==
    IF keys = {} THEN 0
    ELSE LET k == CHOOSE x \in keys : TRUE
         IN  fn[k] + SumOf(fn, keys \ {k})

\* the requests the report counts, over all its months
ReportedRequests ==
    SumOf([i \in 1..Len(stats) |-> stats[i].requests.total], 1..Len(stats))

\* C1: a file that fails while being read is skipped in its entirety: in
\* the final report the months' totals count the records of the files that
\* were read to their end, and none of a file that failed.
C1_FailedFileContributesNothing ==
    pc = "open" =>
        ReportedRequests = SumOf(fed, DOMAIN fed) - failed_yield

\* C2: with a readable directory and a writable destination (no OSError),
\* main writes exactly one report and returns 0, for '-' as for a file
\* path, and returns -1 only after an error.  Runs that the month lookup
\* aborted (C3) are left aside, so that a violation is main's own.
C2_OneReportAndSuccess ==
    /\ (pc = "done" /\ exc \notin {"OSError", "IndexError"}) =>
           (ret = 0 /\ Len(written) = 1)
    /\ (pc = "done" /\ ret = -1) => exc # None

\* C3: no record aborts the run in the month-name lookup, and the month
\* object of every record carries a full English month name, never an
\* empty one, also when the month number is outside 1..12.
C3_EveryMonthNamed ==
    /\ exc # "IndexError"
    /\ \A md \in DOMAIN months :
        /\ months[md].month # ""
        /\ md[2] \in 1..12 => months[md].month = month_name[md[2]]

(***************************************************************************)
(* Claims about the reshaper, checked under SpecReshape.                   *)
(***************************************************************************)

\* the accumulators the i-th month of the report was reshaped from
RawLangs(i) == MonthList(months)[i].languages

\* C6: for a month with n languages and any top_count >= 0 the reshaped
\* list has min(top_count, n) entries, each a distinct language of the
\* month with its bytes total, in descending order of that total, and no
\* language left out has a greater total than one kept.
C6_TopLanguagesRanked ==
    pc = "open" =>
        \A i \in 1..Len(stats) :
            LET raw == RawLangs(i)
                top == stats[i].languages
                kept == {top[j].name : j \in 1..Len(top)}
            IN  /\ Len(top) = IF top_count < Len(raw) THEN top_count ELSE Len(raw)
                /\ Cardinality(kept) = Len(top)
                /\ \A j \in 1..Len(top) :
                       \E k \in 1..Len(raw) :
                           /\ raw[k].name = top[j].name
                           /\ raw[k].total_successful_B = top[j].total_GB.num
                /\ \A j, k \in 1..Len(top) :
                       j < k => top[j].total_GB.num >= top[k].total_GB.num
                /\ \A k \in 1..Len(raw) :
                       raw[k].name \notin kept =>
                           \A j \in 1..Len(top) :
                               raw[k].total_successful_B <= top[j].total_GB.num

\* six languages with six different totals, the first to arrive having
\* the smallest, and top_count = 5: that first language is the one left out
C6_Witness ==
    /\ pc = "open" /\ top_count = 5
    /\ Len(RawLangs(1)) = 6
    /\ \A j, k \in 1..6 :
           j # k => RawLangs(1)[j].total_successful_B
                        # RawLangs(1)[k].total_successful_B
    /\ \A k \in 2..6 :
           RawLangs(1)[1].total_successful_B < RawLangs(1)[k].total_successful_B
    /\ Len(stats[1].languages) = 5
    /\ \A j \in 1..5 : stats[1].languages[j].name # RawLangs(1)[1].name

(***************************************************************************)
(* Claims about the unescape step, checked under SpecUnescape.             *)
(***************************************************************************)

\* one left-to-right pass: an escaped quote or backslash gives the
\* character escaped, anything else is copied
RECURSIVE SinglePass(_)
SinglePass(s) ==
    IF s = << >> THEN << >>
    ELSE IF Len(s) >= 2 /\ s[1] = 92 /\ s[2] \in {34, 92}
         THEN <<s[2]>> \o SinglePass(SubSeq(s, 3, Len(s)))
         ELSE <<s[1]>> \o SinglePass(Tail(s))

\* C8: the unescaped file name is the result of a single left-to-right
\* pass over the escaped name.
C8_UnescapeIsSinglePass ==
    pc = "unescaped" => file_name = SinglePass(escaped_file_name)

\* backslash backslash quote: the second backslash and the quote look like
\* an escaped quote; the result is backslash quote
C8_Witness ==
    /\ pc = "unescaped"
    /\ escaped_file_name = <<92, 92, 34>>
    /\ file_name = <<92, 34>>

(***************************************************************************)
(* Claims about directory order, checked under SpecDir.                    *)
(***************************************************************************)

\* the names of each month's languages list, in order
LanguageLists(report) ==
    [i \in 1..Len(report) |->
        [j \in 1..Len(report[i].languages) |-> report[i].languages[j].name]]

\* the report of a run that reads the same files in the given order
ReportFor(order) ==
    _reshape_stats(MonthList(Accumulated(DirLogRecords(directory, order))),
                   top_count)

\* C7: for the same files the languages list of each month is the same
\* whatever order the directory entries are read in.
C7_LanguagesIndependentOfListing ==
    pc = "open" =>
        \A order \in Listings :
            LanguageLists(ReportFor(order)) = LanguageLists(stats)

====
